---- MODULE Spec2Model ----
(***************************************************************************)
(* pdf-image-extract: signature scanning of a byte buffer for embedded     *)
(* JPEG and PNG images (src/bin/main.py).                                  *)
(*                                                                         *)
(* Offsets are 0-based as in the Python source; a buffer is a TLA+         *)
(* sequence of byte values, so byte k of the buffer is buf[k + 1].         *)
(***************************************************************************)
EXTENDS Integers, Sequences, FiniteSets, TLC

VARIABLES
    infile,       \* main: args.infile, a sequence of characters
    files,        \* the files that exist: resolved path -> bytes
    byte_array,   \* the buffer being scanned (pdf_bytes in main)
    fmt,          \* which scanner runs: "jpeg" or "png"
    pc,           \* position in the program
    i,            \* outer cursor
    start_index,  \* start of the image being resolved
    end_index,    \* inner cursor
    signatures,   \* the result list, a sequence of <<start, end>>
    reads,        \* buffer indices read by the last loop test
    output_dir,   \* save_all_images: the directory created, or <<>>
    output_path,  \* the path last opened for writing, or <<>>
    dirs,         \* the directories that exist, as resolved paths
    n,            \* save_all_images: enumerate() index
    written       \* files handed to the file system, in order

vars == <<infile, files, byte_array, fmt, pc, i, start_index, end_index,
          signatures, reads, output_dir, output_path, dirs, n, written>>

(***************************************************************************)
(* Bounds of the model.                                                    *)
(***************************************************************************)
MaxTokens == 4

MaxFileTokens == 3

(***************************************************************************)
(* Signature table.                                                        *)
(***************************************************************************)
first_begin_signature_symbol == 255

second_begin_signature_symbol == 216

jpeg_end_signature == <<255, 217>>

png_signature == <<137, 80, 78, 71, 13, 10, 26, 10>>

png_end_signature == <<73, 69, 78, 68, 174, 66, 96, 130>>

signature_length == Len(png_signature)

(***************************************************************************)
(* Python sequence primitives.                                             *)
(***************************************************************************)
Min(a, b) == IF a < b THEN a ELSE b

Max(a, b) == IF a > b THEN a ELSE b

\* byte_array[k] for k >= 0; an index past the end raises IndexError, which
\* the callers detect with InRange before reading.
InRange(buf, k) == k >= 0 /\ k < Len(buf)

Byte(buf, k) == IF InRange(buf, k) THEN buf[k + 1] ELSE -1

\* byte_array[a:b] for a, b >= 0: the slice is clamped to the buffer.
Slice(buf, a, b) == SubSeq(buf, Min(a, Len(buf)) + 1, Min(b, Len(buf)))

SliceIndices(buf, a, b) == Min(a, Len(buf)) .. (Min(b, Len(buf)) - 1)

\* filename[-4:] and filename[:-4]
Last4(name) == SubSeq(name, Max(Len(name) - 4, 0) + 1, Len(name))

DropLast4(name) == SubSeq(name, 1, Len(name) - 4)

(***************************************************************************)
(* Paths and the file system.  A path is a sequence of characters, as the  *)
(* program spells it.  The file system resolves it component by          *)
(* component: a resolved path is the sequence of the names walked from     *)
(* the root, <<>>.  The program runs in the directory cwd, one level below *)
(* the root; a relative path is walked from cwd, an absolute one from the  *)
(* root, and the parent of the root is the root.  The set of directories   *)
(* always holds the root, cwd and the parent of each of its members.       *)
(***************************************************************************)
\* str(k) for k >= 0
RECURSIVE Str(_)
Str(k) ==
    LET digit == <<"0", "1", "2", "3", "4", "5", "6", "7", "8", "9">>
    IN  IF k < 10 THEN <<digit[k + 1]>>
        ELSE Str(k \div 10) \o <<digit[(k % 10) + 1]>>

\* os.path.join(a, b)
Join(a, b) ==
    IF b # <<>> /\ b[1] = "/" THEN b
    ELSE IF a = <<>> \/ a[Len(a)] = "/" THEN a \o b
    ELSE a \o <<"/">> \o b

Slashes(path) == { k \in 1..Len(path) : path[k] = "/" }

\* The components of a path: the pieces between its "/".
RECURSIVE Split(_)
Split(path) ==
    IF Slashes(path) = {} THEN <<path>>
    ELSE LET k == CHOOSE x \in Slashes(path) : \A y \in Slashes(path) : x <= y
         IN  <<SubSeq(path, 1, k - 1)>> \o Split(SubSeq(path, k + 1, Len(path)))

Front(seq) == SubSeq(seq, 1, Len(seq) - 1)

Dot == <<".">>

DotDot == <<".", ".">>

cwd == <<<<"w">>>>

NoDirs == {<<>>, cwd}

Parent(dir) == IF dir = <<>> THEN <<>> ELSE Front(dir)

\* Where the walk of a path starts.
StartDir(path) == IF path # <<>> /\ path[1] = "/" THEN <<>> ELSE cwd

\* Walk the components from directory cur: "" and "." stay, ".." goes up, a
\* name must be an existing directory.  ds: the directories, fs: the files.
RECURSIVE Walk(_, _, _, _)
Walk(comps, cur, ds, fs) ==
    IF comps = <<>> THEN [err |-> "", dir |-> cur]
    ELSE LET c == Head(comps)
         IN  IF c = <<>> \/ c = Dot THEN Walk(Tail(comps), cur, ds, fs)
             ELSE IF c = DotDot THEN Walk(Tail(comps), Parent(cur), ds, fs)
             ELSE IF Append(cur, c) \in ds
                  THEN Walk(Tail(comps), Append(cur, c), ds, fs)
             ELSE IF Append(cur, c) \in fs
                  THEN [err |-> "NotADirectoryError", dir |-> cur]
             ELSE [err |-> "FileNotFoundError", dir |-> cur]

\* The components without the empty ones that trailing "/" leave.
RECURSIVE StripEmpty(_)
StripEmpty(comps) ==
    IF comps # <<>> /\ comps[Len(comps)] = <<>> THEN StripEmpty(Front(comps))
    ELSE comps

\* Path resolution, common to every system call: the entry the path names
\* (node, which may not exist), whether the path ends in "/" (slash), or
\* the error met on the way to the entry.  A last component "." or ".."
\* names a directory that exists.
Resolve(path, ds, fs) ==
    IF path = <<>>
    THEN [err |-> "FileNotFoundError", node |-> <<>>, slash |-> FALSE]
    ELSE LET comps == Split(path)
             core  == StripEmpty(comps)
             slash == Len(core) < Len(comps)
             name  == core[Len(core)]
             w     == Walk(Front(core), StartDir(path), ds, fs)
         IN  IF core = <<>> THEN [err |-> "", node |-> <<>>, slash |-> slash]
             ELSE IF w.err # ""
                  THEN [err |-> w.err, node |-> <<>>, slash |-> slash]
             ELSE IF name = Dot
                  THEN [err |-> "", node |-> w.dir, slash |-> slash]
             ELSE IF name = DotDot
                  THEN [err |-> "", node |-> Parent(w.dir), slash |-> slash]
             ELSE [err |-> "", node |-> Append(w.dir, name), slash |-> slash]

\* open(path, "wb"): the file written, created if it is missing, or the
\* error raised.  A path that ends in "/" is refused as a directory.
OpenWrite(path, ds, fs) ==
    LET r == Resolve(path, ds, fs)
    IN  IF r.err # "" THEN [err |-> r.err, file |-> <<>>]
        ELSE IF r.slash \/ r.node \in ds
             THEN [err |-> "IsADirectoryError", file |-> <<>>]
        ELSE [err |-> "", file |-> r.node]

\* open(path, "rb"): the file read, or the error raised.
OpenRead(path, ds, fs) ==
    LET r == Resolve(path, ds, fs)
    IN  IF r.err # "" THEN [err |-> r.err, file |-> <<>>]
        ELSE IF r.node \in ds
             THEN [err |-> "IsADirectoryError", file |-> <<>>]
        ELSE IF r.node \notin fs
             THEN [err |-> "FileNotFoundError", file |-> <<>>]
        ELSE IF r.slash THEN [err |-> "NotADirectoryError", file |-> <<>>]
        ELSE [err |-> "", file |-> r.node]

\* os.path.exists(path)
Exists(path, ds, fs) ==
    LET r == Resolve(path, ds, fs)
    IN  /\ r.err = ""
        /\ \/ r.node \in ds
           \/ r.node \in fs /\ ~r.slash

\* os.mkdir(path): the directories afterwards, or the error raised.
MkDir(path, ds, fs) ==
    LET r == Resolve(path, ds, fs)
    IN  IF r.err # "" THEN [err |-> r.err, dirs |-> ds]
        ELSE IF r.node \in ds \cup fs
             THEN [err |-> "FileExistsError", dirs |-> ds]
        ELSE [err |-> "", dirs |-> ds \cup {r.node}]

\* path.rstrip("/")
RECURSIVE RStrip(_)
RStrip(path) ==
    IF path # <<>> /\ path[Len(path)] = "/" THEN RStrip(Front(path)) ELSE path

\* os.path.split(path): head is everything up to the last "/", without its
\* trailing "/" unless it consists of "/" only; tail is the rest.
PathSplit(path) ==
    LET k    == IF Slashes(path) = {} THEN 0
                ELSE CHOOSE x \in Slashes(path) :
                         \A y \in Slashes(path) : y <= x
         head == SubSeq(path, 1, k)
    IN  [head |-> IF RStrip(head) = <<>> THEN head ELSE RStrip(head),
         tail |-> SubSeq(path, k + 1, Len(path))]

\* os.makedirs(name) with exist_ok=False: the leading part of the path is
\* made first when it is missing, a FileExistsError there is passed over;
\* then the directory itself is made with os.mkdir, whose error is raised.
RECURSIVE MakeDirs(_, _, _)
MakeDirs(name, ds, fs) ==
    LET s1  == PathSplit(name)
        s   == IF s1.tail = <<>> THEN PathSplit(s1.head) ELSE s1
        rec == s.head # <<>> /\ s.tail # <<>> /\ ~Exists(s.head, ds, fs)
        up  == IF rec THEN MakeDirs(s.head, ds, fs)
               ELSE [err |-> "", dirs |-> ds]
    IN  IF rec /\ up.err \notin {"", "FileExistsError"} THEN up
        ELSE IF rec /\ s.tail = Dot THEN [err |-> "", dirs |-> up.dirs]
        ELSE MkDir(name, up.dirs, fs)

\* The file system after bytes are written to the resolved path.
Store(fsys, file, bytes) ==
    [f \in DOMAIN fsys \cup {file} |-> IF f = file THEN bytes ELSE fsys[f]]

NoFiles == [f \in {} |-> <<>>]

(***************************************************************************)
(* find_jpeg_signatures: loop conditions and tests.                        *)
(***************************************************************************)
JpegOuterCondWholeBuffer(buf, c) == c < Len(buf)

JpegOuterCond(buf, c) == c < Len(buf) - 3

\* The `and` chain short-circuits: index c+1 is read only if byte c matched,
\* and so on.
JpegStartIndices(buf, c) ==
    {c}
    \cup (IF Byte(buf, c) = first_begin_signature_symbol THEN {c + 1} ELSE {})
    \cup (IF /\ Byte(buf, c) = first_begin_signature_symbol
             /\ Byte(buf, c + 1) = second_begin_signature_symbol
          THEN {c + 2} ELSE {})
    \cup (IF /\ Byte(buf, c) = first_begin_signature_symbol
             /\ Byte(buf, c + 1) = second_begin_signature_symbol
             /\ Byte(buf, c + 2) = first_begin_signature_symbol
          THEN {c + 3} ELSE {})

JpegStartMatch(buf, c) ==
    /\ Byte(buf, c) = first_begin_signature_symbol
    /\ Byte(buf, c + 1) = second_begin_signature_symbol
    /\ Byte(buf, c + 2) = first_begin_signature_symbol
    /\ 224 <= Byte(buf, c + 3)
    /\ Byte(buf, c + 3) <= 239

JpegInnerCond(buf, e) == e < Len(buf) - 1

JpegEndIndices(buf, e) ==
    {e} \cup (IF Byte(buf, e) = jpeg_end_signature[1] THEN {e + 1} ELSE {})

JpegEndMatch(buf, e) ==
    /\ Byte(buf, e) = jpeg_end_signature[1]
    /\ Byte(buf, e + 1) = jpeg_end_signature[2]

JpegEndFoundTooFar(e) == e + 3

JpegEndFound(e) == e + 2

(***************************************************************************)
(* find_png_signatures: loop conditions and tests.                         *)
(***************************************************************************)
PngOuterCond(buf, c) == c < Len(buf) - signature_length

PngStartIndices(buf, c) == SliceIndices(buf, c, c + signature_length)

PngStartMatch(buf, c) == Slice(buf, c, c + signature_length) = png_signature

PngInnerCond(buf, e) == e < Len(buf) - Len(png_end_signature)

PngEndIndices(buf, e) == SliceIndices(buf, e, e + Len(png_end_signature))

PngEndMatch(buf, e) ==
    Slice(buf, e, e + Len(png_end_signature)) = png_end_signature

PngEndFound(e) == e + Len(png_end_signature)

(***************************************************************************)
(* The two scanners share one skeleton; these select the format's part.    *)
(***************************************************************************)
OuterCond(f, buf, c) ==
    IF f = "jpeg" THEN JpegOuterCond(buf, c) ELSE PngOuterCond(buf, c)

StartIndices(f, buf, c) ==
    IF f = "jpeg" THEN JpegStartIndices(buf, c) ELSE PngStartIndices(buf, c)

StartMatch(f, buf, c) ==
    IF f = "jpeg" THEN JpegStartMatch(buf, c) ELSE PngStartMatch(buf, c)

InnerCond(f, buf, e) ==
    IF f = "jpeg" THEN JpegInnerCond(buf, e) ELSE PngInnerCond(buf, e)

EndIndices(f, buf, e) ==
    IF f = "jpeg" THEN JpegEndIndices(buf, e) ELSE PngEndIndices(buf, e)

EndMatch(f, buf, e) ==
    IF f = "jpeg" THEN JpegEndMatch(buf, e) ELSE PngEndMatch(buf, e)

EndFound(f, e) == IF f = "jpeg" THEN JpegEndFound(e) ELSE PngEndFound(e)

\* i += 1 on a non-match
OuterAdvance(c) == c + 1

\* end_index += 1 on a non-match
InnerAdvance(e) == e + 1

ResumeAfterStart(s, e) == s + 1

ResumeAtStart(s, e) == s

\* i = end_index after a range is appended
Resume(s, e) == e

\* Only the JPEG test indexes single bytes; slices never raise.
Raises(f, buf, idx) == f = "jpeg" /\ \E k \in idx : ~InRange(buf, k)

(***************************************************************************)
(* The scanners as functions of the buffer, computed as the loops compute  *)
(* them.                                                                   *)
(***************************************************************************)
RECURSIVE InnerLoop(_, _, _)
InnerLoop(f, buf, e) ==
    IF ~InnerCond(f, buf, e) THEN e
    ELSE IF EndMatch(f, buf, e) THEN EndFound(f, e)
    ELSE InnerLoop(f, buf, InnerAdvance(e))

RECURSIVE OuterLoop(_, _, _, _)
OuterLoop(f, buf, c, acc) ==
    IF ~OuterCond(f, buf, c) THEN acc
    ELSE IF StartMatch(f, buf, c)
         THEN LET e == InnerLoop(f, buf, c)
              IN  OuterLoop(f, buf, Resume(c, e), Append(acc, <<c, e>>))
         ELSE OuterLoop(f, buf, OuterAdvance(c), acc)

find_jpeg_signatures(buf) == OuterLoop("jpeg", buf, 0, <<>>)

find_png_signatures(buf) == OuterLoop("png", buf, 0, <<>>)

(***************************************************************************)
(* Inputs: buffers assembled from at most MaxTokens pieces, the pieces     *)
(* being the signatures themselves and filler, so that signatures occur    *)
(* at the start, in the middle, back to back and flush with the end.       *)
(***************************************************************************)
Tokens ==
    { <<255, 216, 255, 224>>,      \* JPEG start, marker E0
      <<255, 216, 255, 239>>,      \* JPEG start, marker EF
      <<255, 216, 255>>,           \* JPEG start cut short of its marker
      jpeg_end_signature,
      png_signature,
      png_end_signature,
      <<0>> }

RECURSIVE Flatten(_)
Flatten(ts) == IF ts = <<>> THEN <<>> ELSE Head(ts) \o Flatten(Tail(ts))

Buffers ==
    { Flatten(ts) : ts \in UNION { [1..m -> Tokens] : m \in 0..MaxTokens } }

\* The contents of the file main opens.
PdfFiles ==
    { Flatten(ts) : ts \in UNION { [1..m -> Tokens] : m \in 0..MaxFileTokens } }

Filenames ==
    { <<"a", ".", "p", "d", "f">>,
      <<"a", ".", "P", "D", "F">>,
      <<"a", ".", "t", "x", "t">>,
      <<"d", "/", "a", ".", "p", "d", "f">>,
      <<".", "/", "a", ".", "p", "d", "f">>,
      <<"q", "/", ".", ".", "/", "a", ".", "p", "d", "f">> }

(***************************************************************************)
(* A direct call of find_jpeg_signatures or find_png_signatures.           *)
(***************************************************************************)
Init ==
    /\ infile = <<>>
    /\ files = NoFiles
    /\ byte_array \in Buffers
    /\ fmt \in {"jpeg", "png"}
    /\ pc = "outer"
    /\ i = 0
    /\ start_index = 0
    /\ end_index = 0
    /\ signatures = <<>>
    /\ reads = {}
    /\ output_dir = <<>>
    /\ output_path = <<>>
    /\ dirs = NoDirs
    /\ n = 0
    /\ written = <<>>

io == <<infile, files, byte_array, fmt, output_dir, output_path, dirs, n,
        written>>

\* One evaluation of the outer while's body: the start-signature test at i.
OuterTest ==
    /\ pc = "outer"
    /\ OuterCond(fmt, byte_array, i)
    /\ reads' = StartIndices(fmt, byte_array, i)
    /\ IF Raises(fmt, byte_array, StartIndices(fmt, byte_array, i))
       THEN /\ pc' = "IndexError"
            /\ UNCHANGED <<i, start_index, end_index>>
       ELSE IF StartMatch(fmt, byte_array, i)
       THEN /\ start_index' = i
            /\ end_index' = i
            /\ pc' = "inner"
            /\ UNCHANGED i
       ELSE /\ i' = OuterAdvance(i)
            /\ UNCHANGED <<pc, start_index, end_index>>
    /\ UNCHANGED <<signatures, io>>

\* The outer while's condition is false: return signatures.
OuterExit ==
    /\ pc = "outer"
    /\ ~OuterCond(fmt, byte_array, i)
    /\ pc' = "returned"
    /\ reads' = {}
    /\ UNCHANGED <<i, start_index, end_index, signatures, io>>

\* One evaluation of the inner while's body: the end-signature test at
\* end_index; on a match the loop breaks and the range is appended.
InnerTest ==
    /\ pc = "inner"
    /\ InnerCond(fmt, byte_array, end_index)
    /\ reads' = EndIndices(fmt, byte_array, end_index)
    /\ IF Raises(fmt, byte_array, EndIndices(fmt, byte_array, end_index))
       THEN /\ pc' = "IndexError"
            /\ UNCHANGED <<i, end_index, signatures>>
       ELSE IF EndMatch(fmt, byte_array, end_index)
       THEN /\ end_index' = EndFound(fmt, end_index)
            /\ signatures' = Append(signatures, <<start_index, end_index'>>)
            /\ i' = Resume(start_index, end_index')
            /\ pc' = "outer"
       ELSE /\ end_index' = InnerAdvance(end_index)
            /\ UNCHANGED <<pc, i, signatures>>
    /\ UNCHANGED <<start_index, io>>

\* The inner while's condition is false: the range is appended as it stands.
InnerExit ==
    /\ pc = "inner"
    /\ ~InnerCond(fmt, byte_array, end_index)
    /\ signatures' = Append(signatures, <<start_index, end_index>>)
    /\ i' = Resume(start_index, end_index)
    /\ pc' = "outer"
    /\ reads' = {}
    /\ UNCHANGED <<start_index, end_index, io>>

Scan == OuterTest \/ OuterExit \/ InnerTest \/ InnerExit

Next == Scan

Spec == Init /\ [][Next]_vars

\* The scan is one sequential computation: a step that can be taken is taken.
FairSpec == Spec /\ WF_vars(Next)

(***************************************************************************)
(* main(args): open_pdf, find_jpeg_signatures, save_all_images.            *)
(***************************************************************************)
sample_results == <<"s", "a", "m", "p", "l", "e", "-", "r", "e", "s", "u", "l",
                    "t", "s">>

pdf_images == <<"-", "p", "d", "f", "-", "i", "m", "a", "g", "e", "s">>

\* save_all_images: the directory the images of filename go to.
OutputDir(filename) ==
    Join(sample_results, DropLast4(filename) \o pdf_images)

\* What earlier runs left in the working directory: nothing, the output
\* directory of a run on a.pdf, or a file in the place of sample-results.
Leftovers == {"nothing", "directory", "file"}

LeftDirs(left) ==
    IF left = "directory"
    THEN MakeDirs(OutputDir(<<"a", ".", "p", "d", "f">>), NoDirs, {}).dirs
    ELSE NoDirs

LeftFiles(left) ==
    IF left = "file" THEN Store(NoFiles, Append(cwd, sample_results), <<>>)
    ELSE NoFiles

\* The file system main starts in: what earlier runs left, and either no
\* input file, or the file infile names with the directories on the way
\* to it.
MainInit ==
    /\ infile \in Filenames
    /\ \E left \in Leftovers :
         LET made == MakeDirs(PathSplit(infile).head, LeftDirs(left),
                              DOMAIN LeftFiles(left)).dirs
             r    == OpenWrite(infile, made, DOMAIN LeftFiles(left))
         IN  \/ files = LeftFiles(left) /\ dirs = LeftDirs(left)
             \/ /\ r.err = ""
                /\ dirs = made
                /\ files \in { Store(LeftFiles(left), r.file, bytes) :
                                 bytes \in PdfFiles }
    /\ byte_array = <<>>
    /\ fmt = "jpeg"
    /\ pc = "main"
    /\ i = 0
    /\ start_index = 0
    /\ end_index = 0
    /\ signatures = <<>>
    /\ reads = {}
    /\ output_dir = <<>>
    /\ output_path = <<>>
    /\ n = 0
    /\ written = <<>>

scan == <<i, start_index, end_index, signatures, reads>>

\* pdf_bytes = open_pdf(args.infile); main catches neither the ValueError
\* nor the error open() raises.
OpenPdf ==
    /\ pc = "main"
    /\ LET r == OpenRead(infile, dirs, DOMAIN files)
       IN  IF Last4(infile) # <<".", "p", "d", "f">>
           THEN /\ pc' = "ValueError"
                /\ UNCHANGED byte_array
           ELSE IF r.err # ""
           THEN /\ pc' = r.err
                /\ UNCHANGED byte_array
           ELSE /\ byte_array' = files[r.file]
                /\ pc' = "outer"
    /\ UNCHANGED <<infile, files, fmt, scan, output_dir, output_path, dirs,
                   n, written>>

\* save_all_images up to the for loop: the directory is created if absent.
SaveAllBegin ==
    /\ pc = "returned"
    /\ LET made == MakeDirs(OutputDir(infile), dirs, DOMAIN files)
       IN  /\ output_dir' = OutputDir(infile)
           /\ IF Exists(OutputDir(infile), dirs, DOMAIN files)
              THEN dirs' = dirs /\ pc' = "save"
              ELSE /\ dirs' = made.dirs
                   /\ pc' = IF made.err = "" THEN "save" ELSE made.err
    /\ n' = 0
    /\ UNCHANGED <<infile, files, byte_array, fmt, scan, output_path,
                   written>>

\* One iteration of the for loop over enumerate(image_points); nothing
\* catches the error open() raises.
SaveImage ==
    /\ pc = "save"
    /\ n < Len(signatures)
    /\ LET s == signatures[n + 1][1]
           e == signatures[n + 1][2]
           image_filename ==
               DropLast4(infile) \o <<"-", "i", "m", "a", "g", "e", "-">>
               \o Str(n + 1) \o <<".", "j", "p", "g">>
           path == Join(output_dir, image_filename)
           r == OpenWrite(path, dirs, DOMAIN files)
       IN  /\ output_path' = path
           /\ IF r.err = ""
              THEN /\ files' = Store(files, r.file, Slice(byte_array, s, e))
                   /\ written' = Append(written,
                                        [path  |-> path,
                                         bytes |-> Slice(byte_array, s, e)])
                   /\ n' = n + 1
                   /\ UNCHANGED pc
              ELSE /\ pc' = r.err
                   /\ UNCHANGED <<files, n, written>>
    /\ UNCHANGED <<infile, byte_array, fmt, scan, output_dir, dirs>>

\* The for loop is exhausted; main returns.
SaveAllEnd ==
    /\ pc = "save"
    /\ n >= Len(signatures)
    /\ pc' = "done"
    /\ UNCHANGED <<infile, files, byte_array, fmt, scan, output_dir,
                   output_path, dirs, n, written>>

MainNext == OpenPdf \/ Scan \/ SaveAllBegin \/ SaveImage \/ SaveAllEnd

MainSpec == MainInit /\ [][MainNext]_vars

(***************************************************************************)
(* A direct call of save_image_from_bytes(byte_array, image_tuple,         *)
(* output_path); main does not call it.                                    *)
(***************************************************************************)
OutputPaths ==
    { <<"x", ".", "j", "p", "g">>,
      <<".", "/", "x", ".", "j", "p", "g">>,
      <<"d", "/", "x", ".", "j", "p", "g">>,
      <<"d", "/", "/", "x", ".", "j", "p", "g">>,
      <<"d", "/", ".", ".", "/", "x", ".", "j", "p", "g">>,
      <<"f", "/", "x", ".", "j", "p", "g">>,
      <<"x", "/">>,
      <<"d", "/">>,
      <<"f", "/">>,
      <<"f">>,
      <<".">>,
      <<>> }

Elements(seq) == { seq[k] : k \in 1..Len(seq) }

\* The ranges either scanner finds, and a few that no scanner produces:
\* empty, past the end of the buffer, and the buffer without its first byte.
ImageTuples(buf) ==
    Elements(find_jpeg_signatures(buf)) \cup Elements(find_png_signatures(buf))
    \cup { <<0, 0>>, <<0, Len(buf) + 1>>, <<1, Len(buf)>> }

\* The call starts in a working directory that is empty, or holds the
\* directory d, or the file f, or both.
SaveOneInit ==
    /\ infile = <<>>
    /\ files \in {NoFiles, Store(NoFiles, Append(cwd, <<"f">>), <<0>>)}
    /\ byte_array \in Buffers
    /\ fmt = "jpeg"
    /\ pc = "save_image"
    /\ i = 0
    /\ \E t \in ImageTuples(byte_array) :
          start_index = t[1] /\ end_index = t[2]
    /\ signatures = <<>>
    /\ reads = {}
    /\ output_dir = <<>>
    /\ output_path \in OutputPaths
    /\ dirs \in {NoDirs, NoDirs \cup {Append(cwd, <<"d">>)}}
    /\ n = 0
    /\ written = <<>>

\* image_bytes = byte_array[start_index:end_index], written to output_path.
SaveImageFromBytes ==
    /\ pc = "save_image"
    /\ LET r == OpenWrite(output_path, dirs, DOMAIN files)
           image_bytes == Slice(byte_array, start_index, end_index)
       IN  IF r.err = ""
           THEN /\ files' = Store(files, r.file, image_bytes)
                /\ written' = Append(written, [path  |-> output_path,
                                               bytes |-> image_bytes])
                /\ pc' = "done"
           ELSE /\ pc' = r.err
                /\ UNCHANGED <<files, written>>
    /\ UNCHANGED <<infile, byte_array, fmt, scan, output_dir, output_path,
                   dirs, n>>

SaveOneSpec == SaveOneInit /\ [][SaveImageFromBytes]_vars

(***************************************************************************)
(* Vocabulary of the properties.                                           *)
(***************************************************************************)
Ranges == 1..Len(signatures)

StartOf(k) == signatures[k][1]

EndOf(k) == signatures[k][2]

StartLen(f) == IF f = "jpeg" THEN 4 ELSE Len(png_signature)

EndLen(f) == IF f = "jpeg" THEN Len(jpeg_end_signature)
             ELSE Len(png_end_signature)

\* The signatures as the specification's tables define them, tested on a
\* window that lies wholly inside the buffer.
StartSigAt(f, buf, p) ==
    /\ p >= 0
    /\ p + StartLen(f) <= Len(buf)
    /\ IF f = "jpeg"
       THEN /\ SubSeq(buf, p + 1, p + 3) = <<255, 216, 255>>
            /\ buf[p + 4] \in 224..239
       ELSE SubSeq(buf, p + 1, p + 8) = png_signature

EndSigAt(f, buf, p) ==
    /\ p >= 0
    /\ p + EndLen(f) <= Len(buf)
    /\ SubSeq(buf, p + 1, p + EndLen(f)) =
          (IF f = "jpeg" THEN jpeg_end_signature ELSE png_end_signature)

\* Offsets at or after s where the end signature occurs.
EndsFrom(f, buf, s) == { p \in s..Len(buf) : EndSigAt(f, buf, p) }

FirstEnd(f, buf, s) ==
    CHOOSE p \in EndsFrom(f, buf, s) : \A q \in EndsFrom(f, buf, s) : p <= q

\* The range's bytes end with the end signature.
Terminated(f, buf, k) ==
    /\ EndOf(k) - EndLen(f) >= StartOf(k)
    /\ EndSigAt(f, buf, EndOf(k) - EndLen(f))

TypeOK ==
    /\ pc \in {"main", "ValueError", "outer", "inner", "returned",
               "IndexError", "save", "done", "FileNotFoundError",
               "NotADirectoryError", "IsADirectoryError", "FileExistsError",
               "save_image"}
    /\ i \in 0..Len(byte_array)
    /\ end_index \in 0..Len(byte_array)
    /\ (pc = "returned" =>
          signatures = (IF fmt = "jpeg" THEN find_jpeg_signatures(byte_array)
                        ELSE find_png_signatures(byte_array)))

(***************************************************************************)
(* Properties.                                                             *)
(***************************************************************************)

\* C1: in either scanner the ranges recorded so far are ordered by strictly
\* increasing start offset and do not overlap: each range ends at or before
\* the start of the next.
C1_OrderedDisjoint ==
    \A k \in Ranges :
        k < Len(signatures) =>
            /\ EndOf(k) <= StartOf(k + 1)
            /\ StartOf(k) < StartOf(k + 1)

C1_Witness ==
    /\ pc = "returned"
    /\ Len(signatures) >= 2
    /\ EndOf(1) < StartOf(2)

\* C2: every recorded range (s, e) satisfies 0 <= s < e <= len(buffer); no
\* empty range is recorded.
C2_RangeWithinBuffer ==
    \A k \in Ranges :
        /\ 0 <= StartOf(k)
        /\ StartOf(k) < EndOf(k)
        /\ EndOf(k) <= Len(byte_array)

C2_Witness ==
    /\ pc = "returned"
    /\ \E k \in Ranges : StartOf(k) > 0 /\ EndOf(k) = Len(byte_array)

\* C3: when the end signature occurs at or after the start s of a recorded
\* range, the range is (s, e + len(end_signature)) with e the first such
\* occurrence, also when the end signature is the buffer's last bytes.
C3_TerminatorIncluded ==
    \A k \in Ranges :
        EndsFrom(fmt, byte_array, StartOf(k)) # {} =>
            EndOf(k) = FirstEnd(fmt, byte_array, StartOf(k)) + EndLen(fmt)

\* C4: when no end signature occurs at or after the start s of a recorded
\* range, the range is (s, len(buffer)) and it is the last of the result.
C4_TruncatedToBufferEnd ==
    \A k \in Ranges :
        EndsFrom(fmt, byte_array, StartOf(k)) = {} =>
            /\ EndOf(k) = Len(byte_array)
            /\ k = Len(signatures)

\* C5: the bytes of every recorded range begin with the start signature and
\* end with the end signature, except that the final range may instead end
\* exactly at len(buffer).
C5_RoundTrip ==
    \A k \in Ranges :
        /\ StartSigAt(fmt, byte_array, StartOf(k))
        /\ \/ Terminated(fmt, byte_array, k)
           \/ (k = Len(signatures) /\ EndOf(k) = Len(byte_array))

\* C6: when a terminated range (s1, e1) is recorded and the start signature
\* matches at e1, the next recorded range starts exactly at e1.
C6_AdjacentFound ==
    pc = "returned" =>
        \A k \in Ranges :
            (/\ Terminated(fmt, byte_array, k)
             /\ StartSigAt(fmt, byte_array, EndOf(k)))
            => (k < Len(signatures) /\ StartOf(k + 1) = EndOf(k))

\* C7: the scan raises no error and reads no index outside
\* 0..len(buffer)-1; a buffer shorter than the start signature, or holding
\* no start signature, yields the empty list.
C7_Total ==
    /\ pc # "IndexError"
    /\ reads \subseteq 0..(Len(byte_array) - 1)
    /\ (pc = "returned" =>
          /\ (Len(byte_array) < StartLen(fmt) => signatures = <<>>)
          /\ ((\A p \in 0..Len(byte_array) : ~StartSigAt(fmt, byte_array, p))
                 => signatures = <<>>))

C7_Witness ==
    /\ pc = "returned"
    /\ Len(byte_array) >= StartLen(fmt)
    /\ byte_array[Len(byte_array)] = 255
    /\ \A p \in 0..Len(byte_array) : ~StartSigAt(fmt, byte_array, p)
    /\ signatures = <<>>

\* C8: when main is done, the written files are the bytes of every range of
\* the JPEG scan followed by the bytes of every range of the PNG scan.
C8_BothScansWritten ==
    pc = "done" =>
        LET J == find_jpeg_signatures(byte_array)
            P == find_png_signatures(byte_array)
            R == J \o P
        IN  [k \in 1..Len(written) |-> written[k].bytes] =
            [k \in 1..Len(R) |-> Slice(byte_array, R[k][1], R[k][2])]

\* C9: when the scan has returned, every offset p <= len(buffer) -
\* len(start_signature) where the start signature matches and which lies
\* inside no earlier recorded range starts a recorded range, and no recorded
\* range starts inside another.
C9_Complete ==
    pc = "returned" =>
        /\ \A p \in 0..(Len(byte_array) - StartLen(fmt)) :
              (/\ StartSigAt(fmt, byte_array, p)
               /\ ~\E k \in Ranges : StartOf(k) < p /\ p < EndOf(k))
              => \E k \in Ranges : StartOf(k) = p
        /\ \A k, m \in Ranges : ~(StartOf(m) < StartOf(k) /\ StartOf(k) < EndOf(m))

\* C10: the outer cursor never decreases, moves by 1 on a non-match and to
\* end_index > start_index on a match; the inner cursor strictly increases on
\* every inner iteration; and the scan eventually returns.
C10_Terminates ==
    /\ [][/\ i' >= i
          /\ (pc = "outer" /\ pc' = "outer") => i' = i + 1
          /\ (pc = "inner" /\ pc' = "outer") =>
                (start_index = i /\ i' = end_index' /\ end_index' > start_index)
          /\ (pc = "inner" /\ InnerCond(fmt, byte_array, end_index)) =>
                end_index' > end_index]_vars
    /\ <>(pc = "returned")

C10_Witness ==
    /\ pc = "returned"
    /\ signatures # <<>>
    /\ StartOf(1) > 0
    /\ i > EndOf(Len(signatures))

====
